---- MODULE Spec2Model ----
(***************************************************************************)
(* Model of session8/network.py: the NetworkEnvelope framing codec, the    *)
(* message classes and the SimpleNode session (handshake, send, read,      *)
(* wait_for, is_tx_accepted, get_block).                                   *)
(*                                                                         *)
(* Spec is the session of one SimpleNode with its peer, SpecFair the same  *)
(* with a peer that closes in the end; SpecCodec applies serialize and     *)
(* parse of NetworkEnvelope to envelopes and frames; SpecCatalog uses the  *)
(* message classes on their own.                                           *)
(*                                                                         *)
(* Bytes are the integers 0..255, byte strings are sequences of bytes, a   *)
(* stream is the sequence of bytes not yet read.  Python exceptions are    *)
(* records [exc |-> class name, msg |-> message].                          *)
(***************************************************************************)
EXTENDS Integers, Sequences, FiniteSets, TLC

\* ------------------------------------------------------------------ bounds
MaxFrames == 2
MaxCalls == 2
MaxCommandLen == 2
MaxPayloadLen == 2
MaxItems == 3
MaxHeaders == 3

\* --------------------------------------------------------- module constants
TX_DATA_TYPE == 1
FILTERED_BLOCK_DATA_TYPE == 3

Networks == {"mainnet", "testnet", "signet"}

MAGIC ==
  [n \in Networks |->
     CASE n = "mainnet" -> <<249, 190, 180, 217>>
       [] n = "testnet" -> <<11, 17, 9, 7>>
       [] n = "signet"  -> <<10, 3, 207, 64>>]

\* ------------------------------------------------------------ byte helpers
Min(a, b) == IF a < b THEN a ELSE b

Zeros(n) == [i \in 1..n |-> 0]

\* b[::-1]
Reverse(b) == [i \in 1..Len(b) |-> b[Len(b) + 1 - i]]

\* stream.read(n): at most n bytes, fewer only when the stream has ended
ReadBytes(s, n) == SubSeq(s, 1, Min(n, Len(s)))

RestBytes(s, n) == SubSeq(s, Min(n, Len(s)) + 1, Len(s))

RECURSIVE LStrip(_)
LStrip(b) == IF b # <<>> /\ Head(b) = 0 THEN LStrip(Tail(b)) ELSE b

RECURSIVE RStrip(_)
RStrip(b) ==
  IF b # <<>> /\ b[Len(b)] = 0 THEN RStrip(SubSeq(b, 1, Len(b) - 1)) ELSE b

\* bytes.strip(b"\x00"): removes the zero bytes at BOTH ends
strip(b) == LStrip(RStrip(b))

\* helper.little_endian_to_int: int.from_bytes(b, "little")
RECURSIVE little_endian_to_int(_)
little_endian_to_int(b) ==
  IF b = <<>> THEN 0 ELSE Head(b) + 256 * little_endian_to_int(Tail(b))

\* A non-negative integer as its base-256 digits, least significant first,
\* without leading zero digits (0 is the empty sequence); this form also
\* holds integers as wide as 2**64.
RECURSIVE Digits(_)
Digits(n) == IF n = 0 THEN <<>> ELSE <<n % 256>> \o Digits(n \div 256)

\* helper.int_to_little_endian(n, length): n.to_bytes(length, "little");
\* raises OverflowError when n does not fit into length bytes.
int_to_little_endian(d, length) ==
  IF Len(d) > length
  THEN [ok |-> FALSE, bytes |-> <<>>]
  ELSE [ok |-> TRUE, bytes |-> d \o Zeros(length - Len(d))]

LE(n, length) == int_to_little_endian(Digits(n), length).bytes

\* helper.encode_varint
encode_varint(n) ==
  IF n < 253 THEN <<n>>
  ELSE IF n < 65536 THEN <<253>> \o LE(n, 2)
  ELSE <<254>> \o LE(n, 4)

\* helper.hash256: a 32-byte digest of the payload.  The digest of the empty
\* payload starts with 5d f6 e0 e2, the checksum of the verack frame of
\* NetworkEnvelopeTest.  Every payload byte is mixed into one of the first
\* four digest bytes, so the digest prefix changes whenever one byte changes.
RECURSIVE MixSum(_, _, _, _)
MixSum(p, lo, hi, k) ==
  IF lo > hi THEN 0
  ELSE IF lo = hi THEN (IF lo % 4 = k THEN p[lo] ELSE 0)
  ELSE LET mid == (lo + hi) \div 2
       IN MixSum(p, lo, mid, k) + MixSum(p, mid + 1, hi, k)

EmptyDigest == <<93, 246, 224, 226>>

hash256(p) ==
  [i \in 1..32 |->
     IF i <= 4
     THEN (EmptyDigest[i] + Len(p) + MixSum(p, 1, Len(p), i % 4)) % 256
     ELSE (i + Len(p)) % 256]

\* ---------------------------------------------------------- NetworkEnvelope
\* NetworkEnvelope.__init__
NetworkEnvelope(command, payload, network) ==
  [command |-> command, payload |-> payload, magic |-> MAGIC[network]]

ConnectionReset == [exc |-> "RuntimeError", msg |-> "Connection reset!"]
MagicNotRight == [exc |-> "RuntimeError", msg |-> "magic is not right"]
ChecksumMismatch == [exc |-> "RuntimeError", msg |-> "checksum does not match"]

\* parse without the comparison of the two checksums
parse_nochecksum(s, network) ==
  LET magic == ReadBytes(s, 4)
      s1 == RestBytes(s, 4)
      command == strip(ReadBytes(s1, 12))
      s2 == RestBytes(s1, 12)
      payload_length == little_endian_to_int(ReadBytes(s2, 4))
      s3 == RestBytes(s2, 4)
      s4 == RestBytes(s3, 4)
      payload == ReadBytes(s4, payload_length)
  IN IF magic = <<>>
     THEN [ok |-> FALSE, err |-> ConnectionReset, used |-> 0, need |-> 4]
     ELSE IF magic # MAGIC[network]
     THEN [ok |-> FALSE, err |-> MagicNotRight, used |-> Len(magic), need |-> 4]
     ELSE [ok |-> TRUE,
           envelope |-> NetworkEnvelope(command, payload, network),
           used |-> Min(Len(s), 24 + payload_length),
           need |-> 24 + payload_length]

\* parse without the test for an empty first read
parse_noreset(s, network) ==
  LET magic == ReadBytes(s, 4)
      s1 == RestBytes(s, 4)
      command == strip(ReadBytes(s1, 12))
      s2 == RestBytes(s1, 12)
      payload_length == little_endian_to_int(ReadBytes(s2, 4))
      s3 == RestBytes(s2, 4)
      checksum == ReadBytes(s3, 4)
      s4 == RestBytes(s3, 4)
      payload == ReadBytes(s4, payload_length)
      calculated_checksum == SubSeq(hash256(payload), 1, 4)
  IN IF magic # MAGIC[network]
     THEN [ok |-> FALSE, err |-> MagicNotRight, used |-> Len(magic), need |-> 4]
     ELSE IF calculated_checksum # checksum
     THEN [ok |-> FALSE, err |-> ChecksumMismatch,
           used |-> Min(Len(s), 24 + payload_length),
           need |-> 24 + payload_length]
     ELSE [ok |-> TRUE,
           envelope |-> NetworkEnvelope(command, payload, network),
           used |-> Min(Len(s), 24 + payload_length),
           need |-> 24 + payload_length]

\* NetworkEnvelope.parse(s, network).  The result names the envelope or the
\* exception, the number of bytes taken from the stream (used), and the
\* number of bytes its reads asked for (need > Len(s): some read came short).
parse(s, network) ==
  LET magic == ReadBytes(s, 4)
      s1 == RestBytes(s, 4)
      command == strip(ReadBytes(s1, 12))
      s2 == RestBytes(s1, 12)
      payload_length == little_endian_to_int(ReadBytes(s2, 4))
      s3 == RestBytes(s2, 4)
      checksum == ReadBytes(s3, 4)
      s4 == RestBytes(s3, 4)
      payload == ReadBytes(s4, payload_length)
      calculated_checksum == SubSeq(hash256(payload), 1, 4)
  IN IF magic = <<>>
     THEN [ok |-> FALSE, err |-> ConnectionReset, used |-> 0, need |-> 4]
     ELSE IF magic # MAGIC[network]
     THEN [ok |-> FALSE, err |-> MagicNotRight, used |-> Len(magic), need |-> 4]
     ELSE IF calculated_checksum # checksum
     THEN [ok |-> FALSE, err |-> ChecksumMismatch,
           used |-> Min(Len(s), 24 + payload_length),
           need |-> 24 + payload_length]
     ELSE [ok |-> TRUE,
           envelope |-> NetworkEnvelope(command, payload, network),
           used |-> Min(Len(s), 24 + payload_length),
           need |-> 24 + payload_length]

\* serialize without the padding of the command
serialize_unpadded(e) ==
  e.magic \o e.command
  \o LE(Len(e.payload), 4)
  \o SubSeq(hash256(e.payload), 1, 4)
  \o e.payload

\* NetworkEnvelope.serialize.  b"\x00" * k is empty for k <= 0, so a command
\* longer than 12 bytes is emitted unpadded.
serialize(e) ==
  LET pad == IF Len(e.command) < 12 THEN Zeros(12 - Len(e.command)) ELSE <<>>
  IN e.magic \o e.command \o pad
     \o LE(Len(e.payload), 4)
     \o SubSeq(hash256(e.payload), 1, 4)
     \o e.payload

\* ---------------------------------------------------------- message classes
\* The `command` class attributes.
Command ==
  [VersionMessage    |-> <<118, 101, 114, 115, 105, 111, 110>>,
   VerAckMessage     |-> <<118, 101, 114, 97, 99, 107>>,
   PingMessage       |-> <<112, 105, 110, 103>>,
   PongMessage       |-> <<112, 111, 110, 103>>,
   GetHeadersMessage |-> <<103, 101, 116, 104, 101, 97, 100, 101, 114, 115>>,
   GetDataMessage    |-> <<103, 101, 116, 100, 97, 116, 97>>,
   Tx                |-> <<116, 120>>]

Classes == DOMAIN Command

NoErr == [exc |-> "", msg |-> ""]
NoVal == [cls |-> "None", data |-> <<>>]
OverflowError == [exc |-> "OverflowError", msg |-> "int too big to convert"]
TypeError == [exc |-> "TypeError", msg |-> "missing 1 required positional argument"]
AttributeError == [exc |-> "AttributeError", msg |-> "no attribute parse"]
AttributeErrorSerialize == [exc |-> "AttributeError", msg |-> "no attribute serialize"]
NotImplementedError == [exc |-> "NotImplementedError", msg |-> ""]

\* the failures of the message classes themselves
StartBlockRequired == [exc |-> "RuntimeError", msg |-> "a start block is required"]
TxsNotZero == [exc |-> "RuntimeError", msg |-> "number of txs not 0"]

\* VersionMessage.__init__ with the default arguments; timestamp and nonce
\* are the two values the constructor computes.
DefaultUserAgent ==
  <<47, 112, 114, 111, 103, 114, 97, 109, 109, 105, 110, 103, 98, 108, 111,
    99, 107, 99, 104, 97, 105, 110, 58, 48, 46, 49, 47>>

VersionMessage(timestamp, nonce) ==
  [version |-> 70015, services |-> 0, timestamp |-> timestamp,
   receiver_services |-> 0, receiver_ip |-> <<0, 0, 0, 0>>,
   receiver_port |-> 8333,
   sender_services |-> 0, sender_ip |-> <<0, 0, 0, 0>>, sender_port |-> 8333,
   nonce |-> nonce, user_agent |-> DefaultUserAgent, latest_block |-> 0,
   relay |-> TRUE]

\* VersionMessage.serialize
VersionMessage_serialize(v) ==
  LE(v.version, 4) \o LE(v.services, 8) \o LE(v.timestamp, 8)
  \o LE(v.receiver_services, 8)
  \o Zeros(10) \o <<255, 255>> \o v.receiver_ip \o LE(v.receiver_port, 2)
  \o LE(v.sender_services, 8)
  \o Zeros(10) \o <<255, 255>> \o v.sender_ip \o LE(v.sender_port, 2)
  \o v.nonce
  \o encode_varint(Len(v.user_agent)) \o v.user_agent
  \o LE(v.latest_block, 4)
  \o (IF v.relay THEN <<1>> ELSE <<0>>)

\* VerAckMessage.serialize
VerAckMessage_serialize == <<>>

\* PingMessage.serialize / PongMessage.serialize
PingMessage_serialize(nonce) == nonce

\* a pong that, like a verack, carries nothing
PongMessage_serialize_empty(nonce) == <<>>

PongMessage_serialize(nonce) == nonce

\* GetDataMessage.serialize; data is the list of (data_type, identifier)
RECURSIVE GetDataItems(_)
GetDataItems(data) ==
  IF data = <<>> THEN <<>>
  ELSE LE(Head(data)[1], 4) \o Reverse(Head(data)[2]) \o GetDataItems(Tail(data))

\* a serialize that emits the items last added first
GetDataMessage_serialize_backwards(data) ==
  encode_varint(Len(data)) \o GetDataItems(Reverse(data))

GetDataMessage_serialize(data) == encode_varint(Len(data)) \o GetDataItems(data)

\* GetDataMessage.add_data
add_data(data, data_type, identifier) == Append(data, <<data_type, identifier>>)

\* a bytes object handed to a constructor; None is NoVal
Bytes(b) == [cls |-> "bytes", data |-> b]

\* the result of a constructor, of a parse or of is_valid, and of a serialize
Returned(v) == [ok |-> TRUE, val |-> v, err |-> NoErr]
Raised(e) == [ok |-> FALSE, val |-> NoVal, err |-> e]
NoResult == [ok |-> FALSE, val |-> NoVal, err |-> NoErr]
NoBytes == [ok |-> FALSE, bytes |-> <<>>, err |-> NoErr]

\* GetHeadersMessage.__init__
GetHeadersMessage(version, num_hashes, start_block, end_block) ==
  IF start_block = NoVal
  THEN Raised(StartBlockRequired)
  ELSE Returned([cls |-> "GetHeadersMessage",
                 data |-> [version |-> version, num_hashes |-> num_hashes,
                           start_block |-> start_block.data,
                           end_block |-> IF end_block = NoVal THEN Zeros(32)
                                         ELSE end_block.data]])

\* a serialize that emits the two hashes as they are stored
GetHeadersMessage_serialize_unreversed(g) ==
  LE(g.version, 4) \o encode_varint(g.num_hashes) \o g.start_block \o g.end_block

\* GetHeadersMessage.serialize
GetHeadersMessage_serialize(g) ==
  LE(g.version, 4) \o encode_varint(g.num_hashes)
  \o Reverse(g.start_block) \o Reverse(g.end_block)

\* block.Block, an external collaborator: a header is known by the outcome
\* of its proof-of-work check, its prev_block field and its hash.
Block_check_pow(h) == h.pow

Block_hash(h) == h.hash

\* truth value of `last_block` in is_valid: None and b"" are false
Truthy(x) == x # NoVal /\ x.data # <<>>

\* the loop of HeadersMessage.is_valid from some header on
RECURSIVE is_valid_loop(_, _)
is_valid_loop(headers, last_block) ==
  IF headers = <<>> THEN TRUE
  ELSE LET h == Head(headers)
       IN IF ~Block_check_pow(h) THEN FALSE
          ELSE IF Truthy(last_block) /\ h.prev_block # last_block.data THEN FALSE
          ELSE is_valid_loop(Tail(headers), Bytes(Block_hash(h)))

\* an is_valid that checks the proof of work only
HeadersMessage_is_valid_powonly(headers) ==
  \A i \in 1..Len(headers) : Block_check_pow(headers[i])

\* HeadersMessage.is_valid
HeadersMessage_is_valid(headers) == is_valid_loop(headers, NoVal)

\* tx.Tx, an external collaborator: a transaction is known by its raw bytes;
\* hash() is the reversed digest of those bytes and id() its hex form.
Tx_parse(payload) == [cls |-> "Tx", data |-> payload]

Tx_hash(tx) == Reverse(hash256(tx.data))

Tx_id(tx) == Tx_hash(tx)

\* cls.parse(envelope.stream()) as wait_for calls it on the class object.
\* PongMessage.parse is a plain function (no @classmethod): the stream is
\* bound to cls and s is missing.  VersionMessage, GetHeadersMessage and
\* GetDataMessage define no parse.  HeadersMessage.parse, which rests on
\* Block.parse, is outside this operator: no HeadersMessage is handed to it.
ClassParse(cls, payload) ==
  CASE cls = "VerAckMessage" ->
         [ok |-> TRUE, val |-> [cls |-> "VerAckMessage", data |-> <<>>], err |-> NoErr]
    [] cls = "PingMessage" ->
         [ok |-> TRUE, val |-> [cls |-> "PingMessage", data |-> ReadBytes(payload, 8)],
          err |-> NoErr]
    [] cls = "PongMessage" -> [ok |-> FALSE, val |-> NoVal, err |-> TypeError]
    [] cls = "Tx" -> [ok |-> TRUE, val |-> Tx_parse(payload), err |-> NoErr]
    [] OTHER -> [ok |-> FALSE, val |-> NoVal, err |-> AttributeError]

\* message.serialize() on an object of the catalog; HeadersMessage defines
\* no serialize.
ClassSerialize(obj) ==
  CASE obj.cls = "VersionMessage" ->
         [ok |-> TRUE, bytes |-> VersionMessage_serialize(obj.data), err |-> NoErr]
    [] obj.cls = "VerAckMessage" ->
         [ok |-> TRUE, bytes |-> VerAckMessage_serialize, err |-> NoErr]
    [] obj.cls = "PingMessage" ->
         [ok |-> TRUE, bytes |-> PingMessage_serialize(obj.data), err |-> NoErr]
    [] obj.cls = "PongMessage" ->
         [ok |-> TRUE, bytes |-> PongMessage_serialize(obj.data), err |-> NoErr]
    [] obj.cls = "GetHeadersMessage" ->
         [ok |-> TRUE, bytes |-> GetHeadersMessage_serialize(obj.data), err |-> NoErr]
    [] obj.cls = "GetDataMessage" ->
         [ok |-> TRUE, bytes |-> GetDataMessage_serialize(obj.data), err |-> NoErr]
    [] OTHER -> [ok |-> FALSE, bytes |-> <<>>, err |-> AttributeErrorSerialize]

\* cls(...) for the classes of the catalog, from the arguments of the call
Construct(cls, args) ==
  CASE cls = "VersionMessage" ->
         LET nonce == int_to_little_endian(args.randint, 8)
         IN IF nonce.ok
            THEN Returned([cls |-> cls,
                           data |-> VersionMessage(args.timestamp, nonce.bytes)])
            ELSE Raised(OverflowError)
    [] cls = "VerAckMessage" -> Returned([cls |-> cls, data |-> <<>>])
    [] cls \in {"PingMessage", "PongMessage"} -> Returned([cls |-> cls, data |-> args])
    [] cls = "GetHeadersMessage" ->
         GetHeadersMessage(args.version, args.num_hashes, args.start_block,
                           args.end_block)
    [] cls = "GetDataMessage" -> Returned([cls |-> cls, data |-> <<>>])
    [] cls = "HeadersMessage" -> Returned([cls |-> cls, data |-> args])

\* ------------------------------------------------------------------- state
VARIABLES
  network,    \* SimpleNode.network
  inbound,    \* SimpleNode.stream: the bytes the peer delivers, not yet read
  closed,     \* the peer has closed the connection
  outbound,   \* frames written with socket.sendall, oldest first
  pc,         \* "idle", or "waiting" inside the loop of wait_for
  op,         \* the public method being executed
  requested,  \* message_classes of the running wait_for
  tx_obj,     \* argument of the running is_tx_accepted
  result,     \* outcome of the last finished call
  calls,      \* number of calls made so far
  trace,      \* history of calls, reads, writes and outcomes
  c_env,      \* codec: the envelope under test
  c_net,      \* codec: the network parse is configured for
  c_wire,     \* codec: the bytes handed to parse
  c_out,      \* codec: the result of parse
  c_back,     \* codec: the parsed envelope serialized again
  c_stage,    \* codec: position of the check
  c_msg,      \* codec: the message decoded from the parsed envelope
  m_cls,      \* catalog: the message class in use
  m_args,     \* catalog: the arguments of the constructor and add_data calls
  m_obj,      \* catalog: the outcome of the constructor, the message object
  m_ser,      \* catalog: the outcome of serialize()
  m_ser2,     \* catalog: the outcome of a second serialize()
  m_back,     \* catalog: the outcome of parse() or of is_valid()
  m_stage     \* catalog: position of the scenario

vars ==
  <<network, inbound, closed, outbound, pc, op, requested, tx_obj, result,
    calls, trace, c_env, c_net, c_wire, c_out, c_back, c_stage, c_msg,
    m_cls, m_args, m_obj, m_ser, m_ser2, m_back, m_stage>>

sessionVars ==
  <<network, inbound, closed, outbound, pc, op, requested, tx_obj, result,
    calls, trace>>

codecVars == <<c_env, c_net, c_wire, c_out, c_back, c_stage, c_msg>>

catalogVars == <<m_cls, m_args, m_obj, m_ser, m_ser2, m_back, m_stage>>

\* ------------------------------------------------------------ environment
Nonce1 == <<1, 2, 3, 4, 5, 6, 7, 8>>
Nonce2 == <<8, 7, 6, 5, 4, 3, 2, 1>>

\* int(time.time())
TimeChoices == {1541307708}

\* randint(0, 2**64): both ends are possible outcomes; 2**64 - 1 and 2**64
RandintChoices == {[i \in 1..8 |-> 255], <<0, 0, 0, 0, 0, 0, 0, 0, 1>>}

\* the transaction the caller asks about, and the ones the peer may send
CallerTx == <<1, 0>>

PeerTxs == {<<1, 0>>, <<2, 0>>}

\* block hashes the caller may ask for
BlockHashes == {[i \in 1..32 |-> IF i > 28 THEN i ELSE 0]}

RequestSets ==
  {{"VerAckMessage"}, {"PingMessage"}, {"PongMessage"}, {"VersionMessage"},
   {"VerAckMessage", "Tx"}}

\* what the peer may write: envelopes of the session's network ...
PeerMessages ==
  {[command |-> Command.VerAckMessage, payload |-> <<>>],
   [command |-> Command.PingMessage, payload |-> Nonce1],
   [command |-> Command.PingMessage, payload |-> Nonce2],
   [command |-> Command.PongMessage, payload |-> Nonce1],
   [command |-> Command.VersionMessage, payload |-> LE(70015, 4)]}
  \cup {[command |-> Command.Tx, payload |-> t] : t \in PeerTxs}

OtherNetwork ==
  [n \in Networks |->
     CASE n = "mainnet" -> "testnet" [] n = "testnet" -> "signet"
       [] n = "signet" -> "mainnet"]

\* ... a frame of another network, and a frame damaged in transit
WrongMagicFrame ==
  [n \in Networks |->
     serialize(NetworkEnvelope(Command.VerAckMessage, <<>>, OtherNetwork[n]))]

DamagedFrame ==
  [n \in Networks |->
     LET f == serialize(NetworkEnvelope(Command.PingMessage, Nonce1, n))
     IN [f EXCEPT ![Len(f)] = (f[Len(f)] + 1) % 256]]

PeerFrames ==
  [n \in Networks |->
     {serialize(NetworkEnvelope(m.command, m.payload, n)) : m \in PeerMessages}
     \cup {WrongMagicFrame[n], DamagedFrame[n]}]

\* the beginning of a frame, left on the stream by a peer that went away
\* inside the magic or inside the payload
CutFrames ==
  [n \in Networks |->
     {SubSeq(serialize(NetworkEnvelope(Command.PingMessage, Nonce1, n)), 1, k) :
        k \in {2, 26}}]

\* everything a peer may deliver on one connection: up to MaxFrames frames,
\* possibly followed by a cut frame
RECURSIVE FrameSeqs(_, _)
FrameSeqs(n, k) ==
  IF k = 0 THEN {<<>>}
  ELSE LET shorter == FrameSeqs(n, k - 1)
       IN shorter \cup {s \o f : s \in shorter, f \in PeerFrames[n]}

Deliveries ==
  [n \in Networks |->
     FrameSeqs(n, MaxFrames)
     \cup {s \o f : s \in FrameSeqs(n, MaxFrames - 1), f \in CutFrames[n]}]

\* ------------------------------------------------------------------ events
\* A send event names the position of its frame in outbound.
Ev(ev, o, req, command, payload, idx) ==
  [ev |-> ev, op |-> o, req |-> req, command |-> command, payload |-> payload,
   idx |-> idx]

\* ------------------------------------------------------------------- Init
CodecIdle ==
  /\ c_env = NetworkEnvelope(<<>>, <<>>, "mainnet")
  /\ c_net = "mainnet"
  /\ c_wire = <<>>
  /\ c_out = [ok |-> FALSE, err |-> NoErr, used |-> 0, need |-> 0]
  /\ c_back = <<>>
  /\ c_stage = "off"
  /\ c_msg = NoResult

CatalogIdle ==
  /\ m_cls = "none"
  /\ m_args = <<>>
  /\ m_obj = NoResult
  /\ m_ser = NoBytes
  /\ m_ser2 = NoBytes
  /\ m_back = NoResult
  /\ m_stage = "off"

SessionIdle ==
  /\ closed = FALSE
  /\ outbound = <<>>
  /\ pc = "idle"
  /\ op = "none"
  /\ requested = {}
  /\ tx_obj = NoVal
  /\ result = [kind |-> "none", err |-> NoErr, val |-> NoVal]
  /\ calls = 0
  /\ trace = <<>>

\* SimpleNode.__init__: a connected socket, nothing read or written
Init ==
  /\ network \in Networks
  /\ inbound \in Deliveries[network]
  /\ SessionIdle
  /\ CodecIdle
  /\ CatalogIdle

\* -------------------------------------------------------------------- peer
PeerClose ==
  /\ ~closed
  /\ closed' = TRUE
  /\ UNCHANGED <<network, inbound, outbound, pc, op, requested, tx_obj, result,
                 calls, trace>>
  /\ UNCHANGED codecVars
  /\ UNCHANGED catalogVars

\* ----------------------------------------------------------------- session
\* a send whose frame overtakes the frames written before it
send_prepend(out, command, body, n) ==
  <<serialize(NetworkEnvelope(command, body, n))>> \o out

\* SimpleNode.send: the frame is appended to what the socket has written
send(out, command, body, n) ==
  Append(out, serialize(NetworkEnvelope(command, body, n)))

\* wait_for answering ping only
AutoReply_onlyPing(envelope) ==
  IF envelope.command = Command.PingMessage
  THEN <<[command |-> Command.PongMessage,
          body |-> PongMessage_serialize(envelope.payload)]>>
  ELSE <<>>

\* the branch of wait_for that answers version and ping: the messages sent
AutoReply(envelope) ==
  IF envelope.command = Command.VersionMessage
  THEN <<[command |-> Command.VerAckMessage, body |-> VerAckMessage_serialize]>>
  ELSE IF envelope.command = Command.PingMessage
  THEN <<[command |-> Command.PongMessage,
          body |-> PongMessage_serialize(envelope.payload)]>>
  ELSE <<>>

\* command_to_class and the loop condition of wait_for, negated:
\* command in command_to_class.keys()
Matched(command, classes) == \E c \in classes : Command[c] = command

ClassOf(command, classes) == CHOOSE c \in classes : Command[c] = command

\* what the public method does with the message wait_for returned
Outcome(o, msg, tx) ==
  CASE o = "handshake" -> NoVal
    [] o = "is_tx_accepted" ->
         IF Tx_id(msg) = Tx_id(tx) THEN [cls |-> "bool", data |-> <<1>>] ELSE NoVal
    [] OTHER -> msg

RECURSIVE SendAll(_, _, _)
SendAll(out, msgs, n) ==
  IF msgs = <<>> THEN out
  ELSE SendAll(send(out, Head(msgs).command, Head(msgs).body, n), Tail(msgs), n)

SendEvents(msgs, o, req, first) ==
  [i \in 1..Len(msgs) |-> Ev("send", o, req, <<>>, <<>>, first + i)]

\* SimpleNode.handshake up to the first read of wait_for(VerAckMessage)
Handshake ==
  /\ pc = "idle"
  /\ calls < MaxCalls
  /\ calls' = calls + 1
  /\ \E t \in TimeChoices, r \in RandintChoices :
       LET nonce == int_to_little_endian(r, 8)
           body == VersionMessage_serialize(VersionMessage(t, nonce.bytes))
           call == Ev("call", "handshake", {}, <<>>, <<>>, 0)
       IN IF ~nonce.ok
          THEN /\ result' = [kind |-> "raise", err |-> OverflowError, val |-> NoVal]
               /\ trace' = trace \o <<call, Ev("raise", "handshake", {}, <<>>, <<>>, 0)>>
               /\ op' = "handshake"
               /\ UNCHANGED <<outbound, pc, requested>>
          ELSE /\ outbound' = send(outbound, Command.VersionMessage, body, network)
               /\ pc' = "waiting"
               /\ op' = "handshake"
               /\ requested' = {"VerAckMessage"}
               /\ trace' = trace \o
                    <<call, Ev("send", "handshake", {}, <<>>, <<>>, Len(outbound) + 1)>>
               /\ UNCHANGED result
  /\ UNCHANGED <<network, inbound, closed, tx_obj>>
  /\ UNCHANGED codecVars
  /\ UNCHANGED catalogVars

\* a caller's own SimpleNode.wait_for(*message_classes), up to the first read
CallWaitFor ==
  /\ pc = "idle"
  /\ calls < MaxCalls
  /\ calls' = calls + 1
  /\ \E req \in RequestSets :
       /\ requested' = req
       /\ trace' = Append(trace, Ev("call", "wait_for", req, <<>>, <<>>, 0))
  /\ pc' = "waiting"
  /\ op' = "wait_for"
  /\ UNCHANGED <<network, inbound, closed, outbound, tx_obj, result>>
  /\ UNCHANGED codecVars
  /\ UNCHANGED catalogVars

\* SimpleNode.is_tx_accepted up to the first read of wait_for(Tx)
IsTxAccepted ==
  /\ pc = "idle"
  /\ calls < MaxCalls
  /\ calls' = calls + 1
  /\ LET tx == Tx_parse(CallerTx)
         body == GetDataMessage_serialize(<< <<TX_DATA_TYPE, Tx_hash(tx)>> >>)
     IN /\ tx_obj' = tx
        /\ outbound' = send(outbound, Command.GetDataMessage, body, network)
        /\ trace' = trace \o
             <<Ev("call", "is_tx_accepted", {}, <<>>, <<>>, 0),
               Ev("send", "is_tx_accepted", {}, <<>>, <<>>, Len(outbound) + 1)>>
  /\ pc' = "waiting"
  /\ op' = "is_tx_accepted"
  /\ requested' = {"Tx"}
  /\ UNCHANGED <<network, inbound, closed, result>>
  /\ UNCHANGED codecVars
  /\ UNCHANGED catalogVars

\* a get_block that writes its getdata request before it gives up
GetBlock_requests ==
  /\ pc = "idle"
  /\ calls < MaxCalls
  /\ calls' = calls + 1
  /\ \E h \in BlockHashes :
       /\ outbound' = send(outbound, Command.GetDataMessage,
                           GetDataMessage_serialize(<< <<2, h>> >>), network)
       /\ trace' = trace \o <<Ev("call", "get_block", {}, <<>>, h, 0),
                               Ev("send", "get_block", {}, <<>>, <<>>, Len(outbound) + 1),
                               Ev("raise", "get_block", {}, <<>>, <<>>, 0)>>
  /\ result' = [kind |-> "raise", err |-> NotImplementedError, val |-> NoVal]
  /\ op' = "get_block"
  /\ UNCHANGED <<network, inbound, closed, pc, requested, tx_obj>>
  /\ UNCHANGED codecVars
  /\ UNCHANGED catalogVars

\* SimpleNode.get_block
GetBlock ==
  /\ pc = "idle"
  /\ calls < MaxCalls
  /\ calls' = calls + 1
  /\ \E h \in BlockHashes :
       trace' = trace \o <<Ev("call", "get_block", {}, <<>>, h, 0),
                           Ev("raise", "get_block", {}, <<>>, <<>>, 0)>>
  /\ result' = [kind |-> "raise", err |-> NotImplementedError, val |-> NoVal]
  /\ op' = "get_block"
  /\ UNCHANGED <<network, inbound, closed, outbound, pc, requested, tx_obj>>
  /\ UNCHANGED codecVars
  /\ UNCHANGED catalogVars

\* an iteration that writes one more frame after its read has failed
WaitForStep_resend ==
  /\ pc = "waiting"
  /\ LET r == parse(inbound, network)
     IN /\ closed \/ r.need <= Len(inbound)
        /\ inbound' = RestBytes(inbound, r.used)
        /\ IF ~r.ok
           THEN /\ result' = [kind |-> "raise", err |-> r.err, val |-> NoVal]
                /\ trace' = trace \o
                     <<Ev("readfail", op, requested, <<>>, <<>>, 0),
                       Ev("send", op, requested, <<>>, <<>>, Len(outbound) + 1),
                       Ev("raise", op, requested, <<>>, <<>>, 0)>>
                /\ pc' = "idle"
                /\ outbound' = send(outbound, Command.VerAckMessage,
                                    VerAckMessage_serialize, network)
           ELSE LET envelope == r.envelope
                    command == envelope.command
                    replies == AutoReply(envelope)
                    seen == <<Ev("read", op, requested, command, envelope.payload, 0)>>
                              \o SendEvents(replies, op, requested, Len(outbound))
                IN /\ outbound' = SendAll(outbound, replies, network)
                   /\ IF Matched(command, requested)
                      THEN LET m == ClassParse(ClassOf(command, requested),
                                               envelope.payload)
                           IN /\ pc' = "idle"
                              /\ IF m.ok
                                 THEN /\ result' = [kind |-> "return", err |-> NoErr,
                                                    val |-> Outcome(op, m.val, tx_obj)]
                                      /\ trace' = trace \o seen \o
                                           <<Ev("return", op, requested, <<>>, <<>>, 0)>>
                                 ELSE /\ result' = [kind |-> "raise", err |-> m.err,
                                                    val |-> NoVal]
                                      /\ trace' = trace \o seen \o
                                           <<Ev("raise", op, requested, <<>>, <<>>, 0)>>
                      ELSE /\ pc' = "waiting"
                           /\ trace' = trace \o seen
                           /\ UNCHANGED result
  /\ UNCHANGED <<network, closed, op, requested, tx_obj, calls>>
  /\ UNCHANGED codecVars
  /\ UNCHANGED catalogVars

\* One iteration of the loop of wait_for: self.read() (NetworkEnvelope.parse
\* on the stream, which blocks until the bytes it asks for are there or the
\* peer has closed), the automatic answer, the loop test, and on a match the
\* rest of wait_for and of the public method that called it.
WaitForStep ==
  /\ pc = "waiting"
  /\ LET r == parse(inbound, network)
     IN /\ closed \/ r.need <= Len(inbound)
        /\ inbound' = RestBytes(inbound, r.used)
        /\ IF ~r.ok
           THEN /\ result' = [kind |-> "raise", err |-> r.err, val |-> NoVal]
                /\ trace' = trace \o
                     <<Ev("readfail", op, requested, <<>>, <<>>, 0),
                       Ev("raise", op, requested, <<>>, <<>>, 0)>>
                /\ pc' = "idle"
                /\ UNCHANGED outbound
           ELSE LET envelope == r.envelope
                    command == envelope.command
                    replies == AutoReply(envelope)
                    seen == <<Ev("read", op, requested, command, envelope.payload, 0)>>
                              \o SendEvents(replies, op, requested, Len(outbound))
                IN /\ outbound' = SendAll(outbound, replies, network)
                   /\ IF Matched(command, requested)
                      THEN LET m == ClassParse(ClassOf(command, requested),
                                               envelope.payload)
                           IN /\ pc' = "idle"
                              /\ IF m.ok
                                 THEN /\ result' = [kind |-> "return", err |-> NoErr,
                                                    val |-> Outcome(op, m.val, tx_obj)]
                                      /\ trace' = trace \o seen \o
                                           <<Ev("return", op, requested, <<>>, <<>>, 0)>>
                                 ELSE /\ result' = [kind |-> "raise", err |-> m.err,
                                                    val |-> NoVal]
                                      /\ trace' = trace \o seen \o
                                           <<Ev("raise", op, requested, <<>>, <<>>, 0)>>
                      ELSE /\ pc' = "waiting"
                           /\ trace' = trace \o seen
                           /\ UNCHANGED result
  /\ UNCHANGED <<network, closed, op, requested, tx_obj, calls>>
  /\ UNCHANGED codecVars
  /\ UNCHANGED catalogVars

Next ==
  \/ PeerClose
  \/ Handshake
  \/ CallWaitFor
  \/ IsTxAccepted
  \/ GetBlock
  \/ WaitForStep

Spec == Init /\ [][Next]_vars

\* ------------------------------------------------------------ codec
\* NetworkEnvelope.serialize and NetworkEnvelope.parse applied to envelopes
\* and frames drawn from bounded sets: serialize, then optionally flip one
\* payload bit or cut the frame short, then parse, then serialize again.
RECURSIVE SeqsUpTo(_, _)
SeqsUpTo(S, k) ==
  IF k = 0 THEN {<<>>}
  ELSE LET shorter == SeqsUpTo(S, k - 1)
       IN shorter \cup {Append(s, x) : s \in shorter, x \in S}

\* commands with and without zero bytes at their ends, the verack command,
\* a command that fills all 12 bytes, and the ping and pong commands
CodecCommands ==
  SeqsUpTo({0, 97}, MaxCommandLen)
  \cup {Command.VerAckMessage, <<0, 97, 98>>, [i \in 1..12 |-> 96 + i]}
  \cup {Command.PingMessage, Command.PongMessage}

CodecPayloads == SeqsUpTo({0, 129}, MaxPayloadLen) \cup {Nonce1}

\* b with bit k (0..7) of byte i inverted
FlipBit(b, i, k) ==
  LET p == 2 ^ k
  IN [b EXCEPT ![i] = IF (b[i] \div p) % 2 = 1 THEN b[i] - p ELSE b[i] + p]

InitCodec ==
  /\ network = "mainnet"
  /\ inbound = <<>>
  /\ SessionIdle
  /\ \E c \in CodecCommands, p \in CodecPayloads, n \in Networks :
       c_env = NetworkEnvelope(c, p, n)
  /\ c_net \in Networks
  /\ c_wire = <<>>
  /\ c_out = [ok |-> FALSE, err |-> NoErr, used |-> 0, need |-> 0]
  /\ c_back = <<>>
  /\ c_stage = "start"
  /\ c_msg = NoResult
  /\ CatalogIdle

CodecSerialize ==
  /\ c_stage = "start"
  /\ c_wire' = serialize(c_env)
  /\ c_stage' = "wire"
  /\ UNCHANGED <<c_env, c_net, c_out, c_back, c_msg>>
  /\ UNCHANGED sessionVars
  /\ UNCHANGED catalogVars

\* one bit of the payload changes on the way
CodecFlip ==
  /\ c_stage = "wire"
  /\ \E i \in 25..Len(c_wire), k \in 0..7 : c_wire' = FlipBit(c_wire, i, k)
  /\ c_stage' = "flipped"
  /\ UNCHANGED <<c_env, c_net, c_out, c_back, c_msg>>
  /\ UNCHANGED sessionVars
  /\ UNCHANGED catalogVars

\* the stream ends before the frame does
CodecCut ==
  /\ c_stage = "wire"
  /\ \E k \in 0..(Len(c_wire) - 1) : c_wire' = SubSeq(c_wire, 1, k)
  /\ c_stage' = "cut"
  /\ UNCHANGED <<c_env, c_net, c_out, c_back, c_msg>>
  /\ UNCHANGED sessionVars
  /\ UNCHANGED catalogVars

CodecParse ==
  /\ c_stage \in {"wire", "flipped", "cut"}
  /\ c_out' = parse(c_wire, c_net)
  /\ c_stage' = "parsed_" \o c_stage
  /\ UNCHANGED <<c_env, c_net, c_wire, c_back, c_msg>>
  /\ UNCHANGED sessionVars
  /\ UNCHANGED catalogVars

CodecReserialize ==
  /\ c_stage \in {"parsed_wire", "parsed_flipped", "parsed_cut"}
  /\ c_out.ok
  /\ c_back' = serialize(c_out.envelope)
  /\ c_stage' = "re" \o c_stage
  /\ UNCHANGED <<c_env, c_net, c_wire, c_out, c_msg>>
  /\ UNCHANGED sessionVars
  /\ UNCHANGED catalogVars

\* the classes wait_for may be asked for whose command is among CodecCommands
DecodeClasses == {"VerAckMessage", "PingMessage", "PongMessage"}

\* the end of wait_for: cls.parse(envelope.stream()) on the envelope read
CodecDecode ==
  /\ c_stage \in {"parsed_wire", "parsed_flipped", "parsed_cut"}
  /\ c_out.ok
  /\ Matched(c_out.envelope.command, DecodeClasses)
  /\ c_msg' = ClassParse(ClassOf(c_out.envelope.command, DecodeClasses),
                         c_out.envelope.payload)
  /\ c_stage' = "decoded"
  /\ UNCHANGED <<c_env, c_net, c_wire, c_out, c_back>>
  /\ UNCHANGED sessionVars
  /\ UNCHANGED catalogVars

NextCodec ==
  \/ CodecSerialize
  \/ CodecFlip
  \/ CodecCut
  \/ CodecParse
  \/ CodecReserialize
  \/ CodecDecode

SpecCodec == InitCodec /\ [][NextCodec]_vars

\* ---------------------------------------------------------------- catalog
\* The message classes used on their own: a message is constructed, items
\* are added to a getdata message, the message is serialized, once or
\* twice, and the bytes are parsed by the same class; a headers message is
\* asked whether it is valid.
Hash1 == [i \in 1..32 |-> IF i > 24 THEN i ELSE 0]
Hash2 == [i \in 1..32 |-> IF i > 24 THEN 64 - i ELSE 0]

\* arguments of GetHeadersMessage(...); each may be left out but version and
\* num_hashes then take their defaults 70015 and 1
GetHeadersArgs ==
  [version : {70015, 70016}, num_hashes : {1, 2, 253},
   start_block : {NoVal, Bytes(Hash1), Bytes(Hash2)},
   end_block : {NoVal, Bytes(Hash2)}]

\* arguments of add_data
ItemChoices ==
  {<<t, h>> : t \in {TX_DATA_TYPE, FILTERED_BLOCK_DATA_TYPE}, h \in {Hash1, Hash2}}

\* headers as Block.parse may return them
BlockChoices == [pow : BOOLEAN, prev_block : {Hash1, Hash2}, hash : {Hash1, Hash2}]

InitCatalog ==
  /\ network = "mainnet"
  /\ inbound = <<>>
  /\ SessionIdle
  /\ CodecIdle
  /\ \/ /\ m_cls = "VersionMessage"
        /\ m_args \in [timestamp : TimeChoices, randint : RandintChoices]
     \/ /\ m_cls = "VerAckMessage"
        /\ m_args = <<>>
     \/ /\ m_cls \in {"PingMessage", "PongMessage"}
        /\ m_args \in {Nonce1, Nonce2}
     \/ /\ m_cls = "GetHeadersMessage"
        /\ m_args \in GetHeadersArgs
     \/ /\ m_cls = "GetDataMessage"
        /\ m_args = <<>>
     \/ /\ m_cls = "HeadersMessage"
        /\ m_args \in SeqsUpTo(BlockChoices, MaxHeaders)
  /\ m_obj = NoResult
  /\ m_ser = NoBytes
  /\ m_ser2 = NoBytes
  /\ m_back = NoResult
  /\ m_stage = "args"

\* the constructor call
CatalogConstruct ==
  /\ m_stage = "args"
  /\ m_obj' = Construct(m_cls, m_args)
  /\ m_stage' = "built"
  /\ UNCHANGED <<m_cls, m_args, m_ser, m_ser2, m_back>>
  /\ UNCHANGED sessionVars
  /\ UNCHANGED codecVars

\* get_data.add_data(data_type, identifier); m_args keeps the calls made
CatalogAddData ==
  /\ m_stage = "built"
  /\ m_cls = "GetDataMessage"
  /\ Len(m_obj.val.data) < MaxItems
  /\ \E item \in ItemChoices :
       /\ m_obj' = [m_obj EXCEPT !.val.data = add_data(@, item[1], item[2])]
       /\ m_args' = Append(m_args, item)
  /\ UNCHANGED <<m_cls, m_ser, m_ser2, m_back, m_stage>>
  /\ UNCHANGED sessionVars
  /\ UNCHANGED codecVars

\* message.serialize()
CatalogSerialize ==
  /\ m_stage = "built"
  /\ m_obj.ok
  /\ m_ser' = ClassSerialize(m_obj.val)
  /\ m_stage' = "serialized"
  /\ UNCHANGED <<m_cls, m_args, m_obj, m_ser2, m_back>>
  /\ UNCHANGED sessionVars
  /\ UNCHANGED codecVars

\* message.serialize() once more on the same object
CatalogSerializeAgain ==
  /\ m_stage = "serialized"
  /\ m_ser.ok
  /\ m_ser2' = ClassSerialize(m_obj.val)
  /\ m_stage' = "serialized2"
  /\ UNCHANGED <<m_cls, m_args, m_obj, m_ser, m_back>>
  /\ UNCHANGED sessionVars
  /\ UNCHANGED codecVars

\* cls.parse(BytesIO(message.serialize()))
CatalogParse ==
  /\ m_stage = "serialized"
  /\ m_ser.ok
  /\ m_back' = ClassParse(m_cls, m_ser.bytes)
  /\ m_stage' = "parsed"
  /\ UNCHANGED <<m_cls, m_args, m_obj, m_ser, m_ser2>>
  /\ UNCHANGED sessionVars
  /\ UNCHANGED codecVars

\* headers.is_valid()
CatalogIsValid ==
  /\ m_stage = "built"
  /\ m_cls = "HeadersMessage"
  /\ m_back' = Returned([cls |-> "bool",
                         data |-> IF HeadersMessage_is_valid(m_obj.val.data)
                                  THEN <<1>> ELSE <<0>>])
  /\ m_stage' = "validated"
  /\ UNCHANGED <<m_cls, m_args, m_obj, m_ser, m_ser2>>
  /\ UNCHANGED sessionVars
  /\ UNCHANGED codecVars

NextCatalog ==
  \/ CatalogConstruct
  \/ CatalogAddData
  \/ CatalogSerialize
  \/ CatalogSerializeAgain
  \/ CatalogParse
  \/ CatalogIsValid

SpecCatalog == InitCatalog /\ [][NextCatalog]_vars

\* ================================================================== claims
\* the envelope of the k-th frame written to the connection
Sent(k) == parse(outbound[k], network)

IsTrigger(e) ==
  e.ev = "read" /\ e.command \in {Command.VersionMessage, Command.PingMessage}

\* the first event after position i that is not a write
RECURSIVE NextNonSend(_)
NextNonSend(i) ==
  IF i + 1 > Len(trace) THEN 0
  ELSE IF trace[i + 1].ev = "send" THEN NextNonSend(i + 1) ELSE i + 1

\* C1: while wait_for waits for a set without Ping, every ping it reads is
\* followed by exactly one written pong frame carrying the ping's payload,
\* and the wait goes on: the next thing the call does is another read.
C1_PingAnswered ==
  \A i \in 1..Len(trace) :
    (/\ trace[i].ev = "read"
     /\ trace[i].command = Command.PingMessage
     /\ "PingMessage" \notin trace[i].req)
    => /\ i + 1 <= Len(trace)
       /\ trace[i + 1].ev = "send"
       /\ trace[i + 1].idx \in 1..Len(outbound)
       /\ Sent(trace[i + 1].idx).ok
       /\ Sent(trace[i + 1].idx).envelope.command = Command.PongMessage
       /\ Sent(trace[i + 1].idx).envelope.payload = trace[i].payload
       /\ i + 2 <= Len(trace) => trace[i + 2].ev \in {"read", "readfail"}
       /\ i + 1 = Len(trace) => pc = "waiting"

C1_Witness ==
  \E i \in 1..Len(trace) :
    /\ trace[i].ev = "read"
    /\ trace[i].op = "handshake"
    /\ trace[i].command = Command.PingMessage
    /\ i + 2 <= Len(trace)
    /\ trace[i + 2].ev = "read"
    /\ trace[i + 2].command = Command.VerAckMessage

\* the writes recorded in the history are the frames of outbound, in order
WritesRecorded ==
  LET sends == SelectSeq(trace, LAMBDA e : e.ev = "send")
  IN /\ Len(sends) = Len(outbound)
     /\ \A k \in 1..Len(sends) : sends[k].idx = k

\* C2: every version envelope read by wait_for is answered by exactly one
\* verack frame, written at once, whether or not Version was requested (and
\* when it was, before the call ends); an envelope that is neither version
\* nor ping makes wait_for write nothing.
C2_VersionAnswered ==
  /\ WritesRecorded
  /\ \A i \in 1..Len(trace) :
       trace[i].ev = "read" =>
         IF trace[i].command = Command.VersionMessage
         THEN /\ i + 1 <= Len(trace)
              /\ trace[i + 1].ev = "send"
              /\ trace[i + 1].idx \in 1..Len(outbound)
              /\ Sent(trace[i + 1].idx).ok
              /\ Sent(trace[i + 1].idx).envelope.command = Command.VerAckMessage
              /\ i + 2 <= Len(trace) => trace[i + 2].ev # "send"
              /\ "VersionMessage" \in trace[i].req
                   => /\ i + 2 <= Len(trace)
                      /\ trace[i + 2].ev \in {"return", "raise"}
         ELSE trace[i].command # Command.PingMessage
                => (i + 1 <= Len(trace) => trace[i + 1].ev # "send")

C2_Witness ==
  \E i \in 1..Len(trace) :
    /\ trace[i].ev = "read"
    /\ trace[i].command = Command.VersionMessage
    /\ "VersionMessage" \notin trace[i].req
    /\ i + 2 <= Len(trace)
    /\ trace[i + 2].ev = "read"
    /\ trace[i + 2].command = Command.PongMessage

\* C3: a wait_for for variants that have a parser (VerAck, Ping, Pong) ends
\* at the first envelope whose command is requested and returns the message
\* decoded from its payload; envelopes before it do not end the call.
C3_FirstMatchReturned ==
  \A i \in 1..Len(trace) :
    (/\ trace[i].ev = "read"
     /\ trace[i].op = "wait_for"
     /\ trace[i].req \subseteq {"VerAckMessage", "PingMessage", "PongMessage"})
    => LET j == NextNonSend(i)
       IN IF Matched(trace[i].command, trace[i].req)
          THEN /\ j # 0
               /\ trace[j].ev = "return"
               /\ j = Len(trace)
                    => /\ result.kind = "return"
                       /\ result.val.cls = ClassOf(trace[i].command, trace[i].req)
                       /\ result.val.data = ReadBytes(trace[i].payload, 8)
          ELSE j # 0 => trace[j].ev \in {"read", "readfail"}

\* the answers the triggers read so far call for, in the order of the reads
ExpectedAnswers ==
  LET t == SelectSeq(trace, IsTrigger)
  IN [k \in 1..Len(t) |->
        IF t[k].command = Command.VersionMessage
        THEN [command |-> Command.VerAckMessage, payload |-> <<>>]
        ELSE [command |-> Command.PongMessage, payload |-> t[k].payload]]

\* the verack and pong frames on the outbound stream, in stream order
WrittenAnswers ==
  LET envs == [k \in 1..Len(outbound) |->
                 [command |-> Sent(k).envelope.command,
                  payload |-> Sent(k).envelope.payload]]
  IN SelectSeq(envs, LAMBDA e : e.command \in {Command.VerAckMessage,
                                              Command.PongMessage})

\* C4: the answers to version and ping are on the outbound stream in the
\* order in which their triggers were read, none missing, doubled or out of
\* place, and each was written before the next envelope was read.
C4_AnswersInOrder ==
  /\ WrittenAnswers = ExpectedAnswers
  /\ \A i \in 1..Len(trace) :
       IsTrigger(trace[i]) => i + 1 <= Len(trace) /\ trace[i + 1].ev = "send"

C4_Witness ==
  /\ Len(ExpectedAnswers) = 2
  /\ ExpectedAnswers[1] # ExpectedAnswers[2]
  /\ Len(outbound) >= 3

\* C9 as stated: every handshake writes exactly one version envelope, before
\* it reads anything, and returns only after it has read a verack.
C9_HandshakeSendsVersion ==
  \A i \in 1..Len(trace) :
    (trace[i].ev = "call" /\ trace[i].op = "handshake")
    => /\ i + 1 <= Len(trace)
       /\ trace[i + 1].ev = "send"
       /\ Sent(trace[i + 1].idx).envelope.command = Command.VersionMessage
       /\ \A j \in (i + 2)..Len(trace) :
            (trace[j].ev = "return" /\ trace[j].op = "handshake"
             /\ \A k \in (i + 1)..j : trace[k].ev # "call")
            => trace[j - 1].ev = "read"
               /\ trace[j - 1].command = Command.VerAckMessage

\* C10 as stated: no getdata frame is written and no wait of the caller
\* starts before a verack has been read from the peer.
C10_GatedByHandshake ==
  \A i \in 1..Len(trace) :
    (trace[i].ev = "call" /\ trace[i].op \in {"is_tx_accepted", "wait_for"})
    => \E j \in 1..(i - 1) :
         trace[j].ev = "read" /\ trace[j].command = Command.VerAckMessage

\* the last event of the call that starts at position i of the history
RECURSIVE CallEnd(_)
CallEnd(i) ==
  IF i + 1 > Len(trace) \/ trace[i + 1].ev = "call" THEN i ELSE CallEnd(i + 1)

\* C11 as stated: is_tx_accepted writes exactly one getdata frame, holding
\* the single item (type 1, hash of the transaction), before it reads
\* anything, and when it returns it returns a boolean: true when the
\* transaction read has the identifier asked for, false when it has not.
C11_ReturnsBoolean ==
  \A i \in 1..Len(trace) :
    (trace[i].ev = "call" /\ trace[i].op = "is_tx_accepted")
    => LET e == CallEnd(i)
           asked == Tx_parse(CallerTx)
       IN /\ i + 1 <= Len(trace)
          /\ trace[i + 1].ev = "send"
          /\ Sent(trace[i + 1].idx).ok
          /\ Sent(trace[i + 1].idx).envelope.command = Command.GetDataMessage
          /\ Sent(trace[i + 1].idx).envelope.payload
               = <<1>> \o <<TX_DATA_TYPE, 0, 0, 0>> \o Reverse(Tx_hash(asked))
          /\ \A j \in (i + 2)..e :
               trace[j].ev = "send"
                 => Sent(trace[j].idx).envelope.command # Command.GetDataMessage
          /\ (trace[e].ev = "return" /\ e = Len(trace))
               => /\ trace[e - 1].ev = "read"
                  /\ trace[e - 1].command = Command.Tx
                  /\ result.kind = "return"
                  /\ result.val
                       = [cls |-> "bool",
                          data |-> IF Tx_id(Tx_parse(trace[e - 1].payload)) = Tx_id(asked)
                                   THEN <<1>> ELSE <<0>>]

VersionPayloadLen == 80 + Len(encode_varint(Len(DefaultUserAgent))) + Len(DefaultUserAgent) + 5

\* C16 as stated: whatever nonce the generator draws, the construction and
\* the serialization of the default version message do not fail, so every
\* handshake gets to its first send, and the nonce field of the frame it
\* writes is 8 bytes wide.
C16_NonceFits ==
  \A i \in 1..Len(trace) :
    (trace[i].ev = "call" /\ trace[i].op = "handshake")
    => /\ i + 1 <= Len(trace)
       /\ trace[i + 1].ev # "raise"
       /\ trace[i + 1].ev = "send"
            => /\ Sent(trace[i + 1].idx).ok
               /\ Len(Sent(trace[i + 1].idx).envelope.payload) = VersionPayloadLen
               /\ Len(SubSeq(Sent(trace[i + 1].idx).envelope.payload, 73, 80)) = 8

\* C17: when the read of an iteration of wait_for fails (the connection is
\* closed, the magic is wrong or the checksum does not match), the running
\* operation ends at once with that very failure; after the failed read it
\* reads nothing more and writes no frame: in the history a failed read is
\* followed by the end of the call and then, at most, by another call.
C17_FailurePropagated ==
  [][/\ (pc = "waiting" /\ trace' # trace /\ ~parse(inbound, network).ok)
          => /\ parse(inbound, network).err
                  \in {ConnectionReset, MagicNotRight, ChecksumMismatch}
             /\ pc' = "idle"
             /\ result' = [kind |-> "raise", err |-> parse(inbound, network).err,
                           val |-> NoVal]
             /\ outbound' = outbound
             /\ trace'[Len(trace) + 1].ev = "readfail"
     /\ \A i \in 1..Len(trace') :
          trace'[i].ev = "readfail"
            => /\ i + 1 <= Len(trace')
               /\ trace'[i + 1].ev = "raise"
               /\ trace'[i + 1].op = trace'[i].op
               /\ i + 2 <= Len(trace') => trace'[i + 2].ev = "call"]_vars

C17_Witness ==
  /\ pc = "idle"
  /\ op = "handshake"
  /\ result.kind = "raise"
  /\ result.err = ChecksumMismatch
  /\ Len(trace) >= 2
  /\ trace[Len(trace) - 1].ev = "readfail"
  /\ trace[Len(trace)].ev = "raise"
  /\ Len(outbound) = 2

\* ------------------------------------------------------------------ codec
SameNetwork == MAGIC[c_net] = c_env.magic

NoEdgeZero(b) == b = <<>> \/ (b[1] # 0 /\ b[Len(b)] # 0)

C6_FrameReproduced == c_stage = "reparsed_wire" => c_back = c_wire

\* C7: parse yields an envelope only when the checksum field of the frame
\* equals the first four digest bytes of the payload read, and a frame with
\* one payload bit flipped is refused, with the checksum failure whenever
\* its magic is the configured one.
C7_ChecksumVerified ==
  /\ c_out.ok
       => ReadBytes(RestBytes(c_wire, 20), 4)
            = SubSeq(hash256(c_out.envelope.payload), 1, 4)
  /\ c_stage = "parsed_flipped"
       => /\ ~c_out.ok
          /\ SameNetwork => c_out.err = ChecksumMismatch

C7_Witness ==
  /\ c_stage = "parsed_flipped"
  /\ SameNetwork
  /\ c_env.payload = Nonce1
  /\ ~c_out.ok
  /\ c_out.err = ChecksumMismatch

\* C8: a first read of zero bytes fails as a closed connection, a first
\* read that differs from the configured magic fails as a magic mismatch,
\* which is neither the closed-connection nor the checksum failure; neither
\* case yields an envelope.
C8_FirstReadClassified ==
  c_stage \in {"parsed_wire", "parsed_flipped", "parsed_cut"}
  => /\ c_wire = <<>> => (~c_out.ok /\ c_out.err = ConnectionReset)
     /\ (c_wire # <<>> /\ ReadBytes(c_wire, 4) # MAGIC[c_net])
          => /\ ~c_out.ok
             /\ c_out.err = MagicNotRight
             /\ c_out.err \notin {ConnectionReset, ChecksumMismatch}

C8_Witness ==
  /\ c_stage = "parsed_wire"
  /\ ~SameNetwork
  /\ c_env.command = Command.VerAckMessage
  /\ ~c_out.ok
  /\ c_out.err = MagicNotRight
\* a failure of the malformed-message kind: a RuntimeError that is none of
\* the three failures of the envelope
IsMalformed(e) ==
  e.exc = "RuntimeError" /\ e \notin {ConnectionReset, MagicNotRight, ChecksumMismatch}

\* some read of parse after the magic came back shorter than asked for
ShortEnvelopeRead ==
  /\ c_stage \in {"parsed_wire", "parsed_flipped", "parsed_cut"}
  /\ ReadBytes(c_wire, 4) = MAGIC[c_net]
  /\ c_out.need > Len(c_wire)

\* the payload handed to PingMessage.parse or PongMessage.parse is shorter
\* than the nonce
ShortNonceRead ==
  /\ c_stage = "decoded"
  /\ c_out.envelope.command \in {Command.PingMessage, Command.PongMessage}
  /\ Len(c_out.envelope.payload) < 8

\* C15 as stated: a parse that gets fewer bytes than the field it reads is
\* wide fails with a malformed-message error: the envelope parse when the
\* stream ends inside the command, the length, the checksum or the payload,
\* and the ping and pong parse when the payload is shorter than 8 bytes.
C15_ShortReadRejected ==
  /\ ShortEnvelopeRead => (~c_out.ok /\ IsMalformed(c_out.err))
  /\ ShortNonceRead => (~c_msg.ok /\ IsMalformed(c_msg.err))

\* --------------------------------------------------------------- catalog
\* Python's True and False as returned values
Bool(b) == [cls |-> "bool", data |-> IF b THEN <<1>> ELSE <<0>>]

C14_VariantRoundTrip ==
  /\ (m_stage = "serialized" /\ m_obj.ok) => m_ser.ok
  /\ m_stage = "parsed"
       => /\ m_back.ok
          /\ m_back.val = m_obj.val
          /\ m_cls \in {"PingMessage", "PongMessage"} => m_back.val.data = m_args

\* the number of bytes of the varint that holds n
VarintLen(n) == IF n < 253 THEN 1 ELSE IF n < 65536 THEN 3 ELSE 5

\* the integer a varint holds (for values below 2**32)
VarintValue(b) == IF b[1] < 253 THEN b[1] ELSE little_endian_to_int(Tail(b))

\* C18: the bytes of a getheaders message are the version in 4 bytes, least
\* significant first, num_hashes as a varint, the 32 bytes of the start
\* hash last byte first, and the 32 bytes of the stop hash last byte first,
\* which are 32 zero bytes when no stop hash was given; a constructor call
\* without a start hash raises and leaves no message.
C18_GetHeadersSerialized ==
  m_cls = "GetHeadersMessage"
  => /\ (m_stage # "args" /\ m_args.start_block = NoVal)
          => /\ ~m_obj.ok
             /\ m_obj.val = NoVal
             /\ m_obj.err = StartBlockRequired
             /\ m_stage = "built"
     /\ m_stage \in {"serialized", "serialized2", "parsed"}
          => LET b == m_ser.bytes
                 v == VarintLen(m_args.num_hashes)
             IN /\ m_ser.ok
                /\ Len(b) = 4 + v + 32 + 32
                /\ little_endian_to_int(SubSeq(b, 1, 4)) = m_args.version
                /\ VarintValue(SubSeq(b, 5, 4 + v)) = m_args.num_hashes
                /\ \A i \in 1..32 :
                     b[4 + v + i] = m_args.start_block.data[33 - i]
                /\ \A i \in 1..32 :
                     b[4 + v + 32 + i]
                       = IF m_args.end_block = NoVal THEN 0
                         ELSE m_args.end_block.data[33 - i]

C18_Witness ==
  /\ m_cls = "GetHeadersMessage"
  /\ m_stage = "serialized"
  /\ m_args.num_hashes = 253
  /\ m_args.start_block = Bytes(Hash1)
  /\ m_args.end_block = NoVal
  /\ m_ser.ok

\* C19: after n add_data calls on a new getdata message, serialize gives
\* varint(n) and then the n items in the order of the calls, each the type
\* in 4 bytes, least significant first, and the 32 bytes of the identifier
\* last byte first; the stored items stay what the calls made them, and a
\* second serialize gives the same bytes.
C19_GetDataSerialized ==
  (m_cls = "GetDataMessage" /\ m_stage \in {"serialized", "serialized2", "parsed"})
  => LET b == m_ser.bytes
         n == Len(m_args)
         v == VarintLen(n)
     IN /\ m_ser.ok
        /\ Len(b) = v + 36 * n
        /\ VarintValue(SubSeq(b, 1, v)) = n
        /\ \A k \in 1..n :
             LET at == v + 36 * (k - 1)
             IN /\ little_endian_to_int(SubSeq(b, at + 1, at + 4)) = m_args[k][1]
                /\ \A i \in 1..32 : b[at + 4 + i] = m_args[k][2][33 - i]
        /\ m_obj.val.data = m_args
        /\ m_stage = "serialized2" => (m_ser2.ok /\ m_ser2.bytes = b)

C19_Witness ==
  /\ m_cls = "GetDataMessage"
  /\ m_stage = "serialized2"
  /\ Len(m_args) = 2
  /\ m_args[1] = <<FILTERED_BLOCK_DATA_TYPE, Hash1>>
  /\ m_args[2] = <<TX_DATA_TYPE, Hash2>>
  /\ m_ser2 = m_ser

\* ------------------------------------------------------------- termination
\* the stream holds whole well-formed frames only
RECURSIVE WellFormedStream(_)
WellFormedStream(s) ==
  \/ s = <<>>
  \/ LET r == parse(s, network)
     IN r.ok /\ r.need <= Len(s) /\ WellFormedStream(RestBytes(s, r.used))

\* a wait_for of the caller is in its loop, the frames not yet read are
\* well-formed
WaitingOnFrames == pc = "waiting" /\ op = "wait_for" /\ WellFormedStream(inbound)

\* a wait_for of the caller has just ended: by returning, after the read of
\* a frame with a requested command, or with the closed-connection failure
WaitEnded ==
  /\ pc = "idle"
  /\ op = "wait_for"
  /\ LET e == Len(trace)
     IN \/ /\ trace[e].ev = "return"
           /\ result.kind = "return"
           /\ \E j \in 1..(e - 1) :
                /\ trace[j].ev = "read"
                /\ Matched(trace[j].command, trace[j].req)
                /\ \A k \in (j + 1)..(e - 1) : trace[k].ev = "send"
        \/ /\ trace[e].ev = "raise"
           /\ trace[e - 1].ev = "readfail"
           /\ result.kind = "raise"
           /\ result.err = ConnectionReset

\* an iteration of the loop takes exactly one frame from the stream
OneFramePerIteration ==
  (WaitingOnFrames /\ inbound # <<>> /\ trace' # trace)
  => LET r == parse(inbound, network)
     IN /\ inbound = SubSeq(inbound, 1, r.need) \o inbound'
        /\ Len(SelectSeq(trace', LAMBDA x : x.ev = "read"))
             = Len(SelectSeq(trace, LAMBDA x : x.ev = "read")) + 1

\* the read of the running wait_for can go on: the bytes it asks for are
\* there or the peer has closed.  This is ENABLED <<WaitForStep>>_vars.
ReadReady ==
  pc = "waiting" /\ (closed \/ parse(inbound, network).need <= Len(inbound))

\* The blocking read of wait_for goes on as soon as it can, which is weak
\* fairness of WaitForStep, written out with ReadReady as its enabling
\* condition; and the peer does close the connection in the end.
SpecFair ==
  /\ Spec
  /\ ([]<>(~ReadReady) \/ []<><<WaitForStep>>_vars)
  /\ WF_vars(PeerClose)

\* C20 as stated: when the peer delivers well-formed frames and then closes
\* the connection, a wait_for with a non-empty requested set ends: it
\* returns once it has read a frame with a requested command, and ends with
\* the closed-connection failure when there is none; each iteration of its
\* loop takes exactly one frame from the stream.
C20_WaitTerminates ==
  /\ WaitingOnFrames ~> (pc = "idle")
  /\ [][(WaitingOnFrames /\ pc' = "idle") => WaitEnded']_vars
  /\ [][OneFramePerIteration]_vars


====
